---- MODULE Spec2Model ----
(***************************************************************************)
(* Model of the portable SIMD kernels of velox/common/base/SimdUtil-inl.h. *)
(* Every kernel is a pure function over caller-owned memory.  A 64-bit     *)
(* word is the set of its set bit positions (a subset of 0..63), a byte is *)
(* a number in 0..255, a batch is a sequence of lanes, and a region of     *)
(* memory is a function from addresses to bytes or to 32-bit slots.        *)
(***************************************************************************)
EXTENDS Integers, Sequences, FiniteSets, TLC

VARIABLES
  arch,  \* the architecture tag, as the byte size of its register (A::size())
  scan,  \* indicesOfSetBits: its arguments, locals and the output array
  alt,   \* indicesOfSetBits run with the density test replaced by a free choice
  cp,    \* memcpy / memset: their arguments, locals and the memory they touch
  bm,    \* BitMask::fromBitMask / toBitMask
  lm,    \* leadingMask
  flt,   \* Filter::apply
  prm,   \* Permute::apply / genericPermute
  gth,   \* maskGather
  crc    \* Crc32::apply

vars == <<arch, scan, alt, cp, bm, lm, flt, prm, gth, crc>>

\* A kernel that is not the subject of the specification at hand.
Idle == [pc |-> "idle"]

\* The register widths the kernels are instantiated for: indicesOfSetBits
\* accepts int32 batches of 8 or 4 lanes only.
ArchSizes == {16, 32}

\* xsimd::batch<T, A>::size for an element of elemSize bytes.
BatchSize(a, elemSize) == a \div elemSize

Min(S) == CHOOSE x \in S : \A y \in S : x <= y

(***************************************************************************)
(* Bit-level helpers                                                       *)
(***************************************************************************)

\* mask & (1 << i), as a truth value.
IsBitSet(m, i) == (m \div (2 ^ i)) % 2 = 1

RECURSIVE popcount(_)
\* __builtin_popcount
popcount(b) == IF b = 0 THEN 0 ELSE (b % 2) + popcount(b \div 2)

\* bits::lowMask(n): the n lowest bits of a word.
lowMask(n) == 0 .. (n - 1)

\* bits::highMask(n): the n highest bits of a 64-bit word.
highMask(n) == (64 - n) .. 63

\* bits::roundUp(value, factor)
roundUp(value, factor) == ((value + factor - 1) \div factor) * factor

\* (uint8_t) word : the low byte of a word, as a number.
RECURSIVE SumPow2(_)
SumPow2(S) == IF S = {} THEN 0
              ELSE LET b == Min(S) IN (2 ^ b) + SumPow2(S \ {b})

LowByte(word) == SumPow2({b \in word : b < 8})

\* word >> 8
ShiftRight8(word) == {b - 8 : b \in {c \in word : c >= 8}}

\* The positions of the set bits of a byte, ascending.
RECURSIVE SetBitSeq(_, _)
SetBitSeq(byte, b) ==
  IF b = 8 THEN <<>>
  ELSE (IF IsBitSet(byte, b) THEN <<b>> ELSE <<>>) \o SetBitSeq(byte, b + 1)

\* byteSetBits[byte]: 8 int32 entries, the set bit positions of the byte in
\* ascending order, the entries after them filled with their own index.
byteSetBits(byte) ==
  LET s == SetBitSeq(byte, 0)
  IN  [j \in 1..8 |-> IF j <= Len(s) THEN s[j] ELSE j - 1]

(***************************************************************************)
(* indicesOfSetBits                                                        *)
(***************************************************************************)

\* Words per bitmap of the model.
NumWords == 2

\* The words a bitmap is drawn from: empty, every bit, and the specification's
\* example 0b1011 extended by bits at nibble, byte and word edges.
WordPool == { {}, {0, 1, 3, 4, 7, 8, 62, 63}, 0..63 }

Bitmaps == [1..NumWords -> WordPool]

\* begin and end are drawn from the positions next to a word boundary.
Positions == {p \in 0..(64 * NumWords) : p % 64 \in {0, 1, 4, 63}}

\* Slots of the caller's output array: one per bit and room for the last
\* full-batch store.
OutSlots == 64 * NumWords + 8

\* The output array before the call: no slot holds a bit position.
FreshResult == [i \in 0..(OutSlots - 1) |-> -1]

\* StoreUnaligned writing one slot more than the batch has lanes.
StoreUnaligned_OneMore(result, pos, lanes) ==
  [i \in DOMAIN result |->
     IF i >= pos /\ i < pos + Len(lanes) THEN lanes[i - pos + 1]
     ELSE IF i = pos + Len(lanes) THEN lanes[Len(lanes)] + 1
     ELSE result[i]]

\* (batch + row).store_unaligned(result): n lanes written from slot pos on.
StoreUnaligned(result, pos, lanes) ==
  [i \in DOMAIN result |->
     IF i >= pos /\ i < pos + Len(lanes) THEN lanes[i - pos + 1] ELSE result[i]]

\* Batch::load_(un)aligned(indices + off) + row, for a batch of n lanes.
LoadPlusRow(indices, off, n, row) == [j \in 1..n |-> indices[off + j] + row]

RECURSIVE BitAtATime(_, _, _, _)
\* Lines 126-129: do { *result++ = ctz(word) + row; word &= word - 1 } while (word)
BitAtATime(word, row, result, pos) ==
  LET r   == [result EXCEPT ![pos] = Min(word) + row]
      w   == word \ {Min(word)}
  IN  IF w = {} THEN [result |-> r, pos |-> pos + 1]
      ELSE BitAtATime(w, row, r, pos + 1)

\* ByteStores advancing the output by a full batch instead of the bits found.
ByteStores_FullAdvance(a, byte, row, result, pos) ==
  IF byte = 0 THEN [result |-> result, pos |-> pos]
  ELSE [result |-> StoreUnaligned(result, pos,
                                  LoadPlusRow(byteSetBits(byte), 0, 8, row)),
        pos    |-> pos + 8]

\* Lines 133-157: the stores made for one byte of the word.
ByteStores(a, byte, row, result, pos) ==
  IF byte = 0 THEN [result |-> result, pos |-> pos]
  ELSE
    LET indices == byteSetBits(byte)
    IN  IF BatchSize(a, 4) = 8
        THEN [result |-> StoreUnaligned(result, pos,
                                        LoadPlusRow(indices, 0, 8, row)),
              pos    |-> pos + popcount(byte)]
        ELSE
          LET lo   == byte % 16
              hi   == byte \div 16
              r1   == IF lo # 0
                      THEN StoreUnaligned(result, pos,
                                          LoadPlusRow(indices, 0, 4, row))
                      ELSE result
              pop  == IF lo # 0 THEN popcount(lo) ELSE 0
              p1   == pos + pop
              r2   == IF hi # 0
                      THEN StoreUnaligned(r1, p1,
                                          LoadPlusRow(indices, pop, 4, row))
                      ELSE r1
              p2   == IF hi # 0 THEN p1 + popcount(hi) ELSE p1
          IN  [result |-> r2, pos |-> p2]

RECURSIVE ByteWise(_, _, _, _, _, _)
ByteWiseNext(a, word, row, st, byteCnt) ==
  ByteWise(a, word, row, st.result, st.pos, byteCnt)

\* Lines 132-159: for (byteCnt = 0; byteCnt < 8; ++byteCnt) { ...; row += 8 }
ByteWise(a, word, row, result, pos, byteCnt) ==
  IF byteCnt = 8 THEN [result |-> result, pos |-> pos, row |-> row]
  ELSE \* byte = word; word = word >> 8; ...; row += 8
       ByteWiseNext(a, ShiftRight8(word), row + 8,
                    ByteStores(a, LowByte(word), row, result, pos), byteCnt + 1)

\* Line 125: the density test choosing the bit-at-a-time loop.
DensityTest(pos, row) == pos < row \div 4

\* Lines 125-160: extract the bits of a nonzero, masked word by either path.
ExtractWord(a, word, row, result, pos, useBitLoop) ==
  IF useBitLoop
  THEN [row |-> row + 64] @@ BitAtATime(word, row, result, pos)
  ELSE ByteWise(a, word, row, result, pos, 0)

\* Lines 109-110: the first word loses the bits below begin.
MaskFirst(word, wordIndex, firstWord, begin) ==
  IF wordIndex = firstWord /\ begin # firstWord * 64
  THEN word \cap highMask(64 - (begin - firstWord * 64))
  ELSE word

\* MaskLast without the mask of the partial last word.
MaskLast_Unmasked(word, wordIndex, endWord, end) == word

\* Lines 116-119: the last word loses the bits from end on.
MaskLast(word, wordIndex, endWord, end) ==
  LET lastBits == end - (endWord - 1) * 64
  IN  IF wordIndex = endWord - 1 /\ lastBits < 64
      THEN word \cap lowMask(lastBits)
      ELSE word

\* Lines 104-160: one iteration of the loop over the words, on the locals
\* st = [result, pos, row], with the path for a nonzero word given by useBitLoop.
\* brk tells that the iteration left the loop by break.
WordIteration(a, s, st, useBitLoop) ==
  LET firstWord == s.begin \div 64
      endWord   == roundUp(s.end, 64) \div 64
      word0     == s.bits[s.wordIndex + 1]
      word1     == MaskFirst(word0, s.wordIndex, firstWord, s.begin)
      word2     == MaskLast(word1, s.wordIndex, endWord, s.end)
  IN  IF word0 = {} \/ word1 = {}
      THEN [result |-> st.result, pos |-> st.pos, row |-> st.row + 64,
            brk |-> FALSE]
      ELSE IF word2 = {}
      THEN [result |-> st.result, pos |-> st.pos, row |-> st.row,
            brk |-> TRUE]
      ELSE [brk |-> FALSE] @@
           ExtractWord(a, word2, st.row, st.result, st.pos, useBitLoop)

\* Lines 96-102: the empty range returns 0, otherwise the locals are set up.
ScanEnter ==
  /\ scan.pc = "call"
  /\ scan' = IF scan.end <= scan.begin
             THEN [scan EXCEPT !.pc = "done"]
             ELSE [scan EXCEPT !.pc = "loop",
                               !.row = scan.begin - (scan.begin % 64),
                               !.wordIndex = scan.begin \div 64]
  /\ alt' = IF alt.pc = "idle" \/ scan.end <= scan.begin THEN alt
            ELSE [alt EXCEPT !.row = scan.begin - (scan.begin % 64)]
  /\ UNCHANGED <<arch, cp, bm, lm, flt, prm, gth, crc>>

\* Lines 103-161: one iteration of the loop, the path chosen by the density test.
ScanWordCode ==
  /\ scan.pc = "loop"
  /\ scan.wordIndex < roundUp(scan.end, 64) \div 64
  /\ \E st \in {WordIteration(arch, scan,
                 [result |-> scan.result, pos |-> scan.pos, row |-> scan.row],
                 DensityTest(scan.pos, scan.row))} :
         scan' = [scan EXCEPT !.result = st.result, !.pos = st.pos,
                              !.row = st.row,
                              !.wordIndex = IF st.brk THEN @ ELSE @ + 1,
                              !.pc = IF st.brk THEN "done" ELSE "loop"]

ScanWord ==
  /\ ScanWordCode
  /\ UNCHANGED <<arch, alt, cp, bm, lm, flt, prm, gth, crc>>

\* The same iteration, with the second run taking either path for the word.
ScanWordEitherPath ==
  /\ ScanWordCode
  /\ \E useBitLoop \in BOOLEAN :
       \E st \in {WordIteration(arch, scan,
                   [result |-> alt.result, pos |-> alt.pos, row |-> alt.row],
                   useBitLoop)} :
           alt' = [alt EXCEPT !.result = st.result, !.pos = st.pos,
                              !.row = st.row,
                              !.otherPath = @ \/ (st.pos # alt.pos /\
                                 useBitLoop # DensityTest(scan.pos, scan.row))]
  /\ UNCHANGED <<arch, cp, bm, lm, flt, prm, gth, crc>>

\* Lines 103, 162: the loop ends and the count written is returned.
ScanReturn ==
  /\ scan.pc = "loop"
  /\ scan.wordIndex >= roundUp(scan.end, 64) \div 64
  /\ scan' = [scan EXCEPT !.pc = "done"]
  /\ UNCHANGED <<arch, alt, cp, bm, lm, flt, prm, gth, crc>>

\* The calls of the model: begin and end at word edges, end below begin only
\* as end = 0.
ScanArgs ==
  {a \in [pc : {"call"}, bits : Bitmaps, begin : Positions, end : Positions,
          result : {FreshResult}, pos : {0}, row : {0}, wordIndex : {0}] :
     a.end >= a.begin \/ a.end = 0}

InitScan ==
  /\ arch \in ArchSizes
  /\ scan \in ScanArgs
  /\ alt = Idle
  /\ cp = Idle /\ bm = Idle /\ lm = Idle /\ flt = Idle /\ prm = Idle
  /\ gth = Idle /\ crc = Idle

NextScan == ScanEnter \/ ScanWord \/ ScanReturn

SpecScan == InitScan /\ [][NextScan]_vars

InitScanAlt ==
  /\ arch \in ArchSizes
  /\ scan \in ScanArgs
  /\ alt = [pc |-> "shadow", result |-> FreshResult, pos |-> 0, row |-> 0,
            otherPath |-> FALSE]
  /\ cp = Idle /\ bm = Idle /\ lm = Idle /\ flt = Idle /\ prm = Idle
  /\ gth = Idle /\ crc = Idle

NextScanAlt == ScanEnter \/ ScanWordEitherPath \/ ScanReturn

SpecScanAlt == InitScanAlt /\ [][NextScanAlt]_vars

\* The set bits of the bitmap in [begin, end).
SetBitsIn(bits, begin, end) ==
  {k \in begin..(end - 1) : (k % 64) \in bits[(k \div 64) + 1]}

\* C1: when indicesOfSetBits returns, the returned count is the number of set
\* bits k with begin <= k < end (0 when end <= begin), and result[0..count)
\* holds exactly those positions in strictly increasing order.
C1_IndicesOfSetBits ==
  scan.pc = "done" =>
    LET S == SetBitsIn(scan.bits, scan.begin, scan.end)
    IN  /\ scan.pos = Cardinality(S)
        /\ {scan.result[j] : j \in 0..(scan.pos - 1)} = S
        /\ \A j \in 0..(scan.pos - 2) : scan.result[j] < scan.result[j + 1]

\* A call whose begin and end fall inside the same word, with set bits of that
\* word on both sides of the range and inside it, has returned.
C1_Witness ==
  /\ scan.pc = "done"
  /\ scan.begin = 1 /\ scan.end = 4
  /\ scan.bits[1] = 0..63
  /\ scan.pos = 3
  /\ scan.result[0] = 1 /\ scan.result[2] = 3

\* C10: the choice between the bit-at-a-time loop and the byte-wise table path
\* does not affect the result: a run taking an arbitrary path for every word
\* has, after every word, the same count, the same entries result[0..count)
\* and the same row as the run that follows the density test, and row has
\* advanced by exactly 64 for every word gone through.
C10_PathChoiceIrrelevant ==
  /\ alt.pos = scan.pos
  /\ alt.row = scan.row
  /\ \A j \in 0..(scan.pos - 1) : alt.result[j] = scan.result[j]
  /\ scan.pc = "loop" => scan.row = 64 * scan.wordIndex

\* A call has returned bits of two words, and for a word with set bits the
\* second run took the path the density test did not choose.
C10_Witness ==
  /\ scan.pc = "done"
  /\ alt.otherPath
  /\ scan.pos > 16
  /\ scan.begin % 64 # 0 /\ scan.end % 64 # 0

\* C11, as claimed: on return every slot of the output array at index >= the
\* returned count still holds the value it had before the call.
C11_AsClaimed ==
  scan.pc = "done" =>
    \A i \in scan.pos..(OutSlots - 1) : scan.result[i] = FreshResult[i]

\* C11, amended: with N the lanes of an int32 batch, every slot at index
\* >= count + N - 1 holds the value it had before the call, during the call
\* and on return; and the bit-at-a-time loop, taken for any word the call comes
\* to, leaves every slot from its new count on as it was.
C11_WritesBelowCountPlusBatch ==
  /\ \A i \in (scan.pos + BatchSize(arch, 4) - 1)..(OutSlots - 1) :
       scan.result[i] = FreshResult[i]
  /\ (scan.pc = "loop" /\ scan.wordIndex < roundUp(scan.end, 64) \div 64) =>
       \A st \in {WordIteration(arch, scan,
                    [result |-> scan.result, pos |-> scan.pos,
                     row |-> scan.row], TRUE)} :
         \A i \in st.pos..(OutSlots - 1) : st.result[i] = scan.result[i]

\* The specification's example has returned 3 from the byte-wise table path:
\* the slot behind the last reported entry was overwritten by the full-batch
\* store, the slot a batch further on was not.
C11_Witness ==
  /\ scan.pc = "done"
  /\ scan.begin = 0 /\ scan.end = 4
  /\ scan.pos = 3
  /\ scan.result[2] = 3
  /\ scan.result[3] # FreshResult[3]
  /\ scan.result[scan.pos + BatchSize(arch, 4) - 1] = -1

(***************************************************************************)
(* memcpy and memset                                                       *)
(***************************************************************************)

\* The largest byte count of a call, and the largest offset of the source
\* and of the destination from the start of their regions.
MaxBytes == 48
MaxOffset == 1

\* The memory of the model: the source region, the destination region, and
\* room behind the destination for a store that overruns it.
DstBase == MaxOffset + MaxBytes
MemSize == 2 * (MaxOffset + MaxBytes) + 32

\* The memory before the call: every address holds a byte of its own.
FreshMem == [a \in 0..(MemSize - 1) |-> (a + 1) % 256]

\* The bytes of memory at [at, at + size).
LoadBytes(mem, at, size) == [j \in 1..size |-> mem[at + j - 1]]

\* Memory with the bytes of unit written from address at on.
StoreBytes(mem, at, unit) ==
  [a \in DOMAIN mem |->
     IF a >= at /\ a < at + Len(unit) THEN unit[a - at + 1] ELSE mem[a]]

\* CopyWord<T, A>::apply for a T of size bytes: one load of T, one store of T.
CopyWord(mem, to, from, size) == StoreBytes(mem, to, LoadBytes(mem, from, size))

\* copyNextWord with an early return before the pointers advance dropped:
\* the unit is copied even when fewer bytes remain.
copyNextWord_NoGuard(size, st) ==
  [mem   |-> CopyWord(st.mem, st.to, st.from, size),
   to    |-> st.to + size, from |-> st.from + size,
   bytes |-> st.bytes - size, ret |-> st.bytes - size > 0]

\* Lines 200-213: copyNextWord<T, A>(to, from, bytes) for sizeof(T) = size, on
\* st = [mem, to, from, bytes]; ret is the value returned.
copyNextWord(size, st) ==
  IF st.bytes >= size
  THEN IF st.bytes - size = 0
       THEN [mem   |-> CopyWord(st.mem, st.to, st.from, size),
             to    |-> st.to, from |-> st.from,
             bytes |-> 0, ret |-> FALSE]
       ELSE [mem   |-> CopyWord(st.mem, st.to, st.from, size),
             to    |-> st.to + size, from |-> st.from + size,
             bytes |-> st.bytes - size, ret |-> TRUE]
  ELSE [mem |-> st.mem, to |-> st.to, from |-> st.from,
        bytes |-> st.bytes, ret |-> TRUE]

\* The locals of memcpy / memset that a copyNextWord / setNextWord call updates.
Locals(c) == [mem |-> c.mem, to |-> c.to, from |-> c.from, bytes |-> c.bytes]

\* c after a call that returned r, the function returning at once when the
\* call returned false and going on at pc next otherwise.
AfterCall(c, r, next) ==
  [c EXCEPT !.mem = r.mem, !.to = r.to, !.from = r.from, !.bytes = r.bytes,
            !.pc = IF r.ret THEN next ELSE "done"]

OtherThanCp == <<arch, scan, alt, bm, lm, flt, prm, gth, crc>>

\* Lines 218-222: while (bytes >= batchByteSize(arch)) copy a batch.
MemcpyBatch ==
  /\ cp.pc = "batch" /\ cp.kind = "memcpy"
  /\ cp' = IF cp.bytes >= arch
           THEN AfterCall(cp, copyNextWord(arch, Locals(cp)), "batch")
           ELSE [cp EXCEPT !.pc = "word64"]
  /\ UNCHANGED OtherThanCp

\* Lines 223-227: while (bytes >= sizeof(int64_t)) copy an int64_t.
MemcpyWord64 ==
  /\ cp.pc = "word64" /\ cp.kind = "memcpy"
  /\ cp' = IF cp.bytes >= 8
           THEN AfterCall(cp, copyNextWord(8, Locals(cp)), "word64")
           ELSE [cp EXCEPT !.pc = "word32"]
  /\ UNCHANGED OtherThanCp

\* Lines 228-230: copyNextWord<int32_t>.
MemcpyWord32 ==
  /\ cp.pc = "word32" /\ cp.kind = "memcpy"
  /\ cp' = AfterCall(cp, copyNextWord(4, Locals(cp)), "word16")
  /\ UNCHANGED OtherThanCp

\* Lines 231-233: copyNextWord<int16_t>.
MemcpyWord16 ==
  /\ cp.pc = "word16" /\ cp.kind = "memcpy"
  /\ cp' = AfterCall(cp, copyNextWord(2, Locals(cp)), "word8")
  /\ UNCHANGED OtherThanCp

\* Line 234: copyNextWord<int8_t>, and the function returns.
MemcpyWord8 ==
  /\ cp.pc = "word8" /\ cp.kind = "memcpy"
  /\ cp' = [AfterCall(cp, copyNextWord(1, Locals(cp)), "done")
              EXCEPT !.pc = "done"]
  /\ UNCHANGED OtherThanCp

\* The calls of the model; the regions of source and destination are apart.
CopyArgs(kind, datas, froms) ==
  {[kind |-> kind, pc |-> "batch", mem |-> FreshMem, data |-> d,
    to |-> DstBase + t, from |-> f, bytes |-> n,
    to0 |-> DstBase + t, from0 |-> f, n |-> n] :
     d \in datas, t \in 0..MaxOffset, f \in froms, n \in 0..MaxBytes}

InitMemcpy ==
  /\ arch \in ArchSizes
  /\ cp \in CopyArgs("memcpy", {0}, 0..MaxOffset)
  /\ scan = Idle /\ alt = Idle /\ bm = Idle /\ lm = Idle /\ flt = Idle
  /\ prm = Idle /\ gth = Idle /\ crc = Idle

NextMemcpy ==
  MemcpyBatch \/ MemcpyWord64 \/ MemcpyWord32 \/ MemcpyWord16 \/ MemcpyWord8

SpecMemcpy == InitMemcpy /\ [][NextMemcpy]_vars

RECURSIVE NaiveCopy(_, _, _, _)
\* The byte-by-byte copy: for (i = 0; i < n; ++i) to[i] = from[i].
NaiveCopy(mem, to, from, n) ==
  IF n = 0 THEN mem
  ELSE NaiveCopy([mem EXCEPT ![to] = mem[from]], to + 1, from + 1, n - 1)

\* C2: when memcpy(to, from, n) returns, memory is what the byte-by-byte copy
\* of n bytes makes of the memory before the call (to[i] = from[i] for i < n,
\* every other byte unchanged), and at no point has the cascade copied more
\* than the bytes that remained.
C2_MemcpyIsNaiveCopy ==
  /\ cp.bytes >= 0
  /\ cp.pc = "done" => cp.mem = NaiveCopy(FreshMem, cp.to0, cp.from0, cp.n)

\* A copy from an odd source to an odd destination that went through a batch
\* and every narrower unit has returned.
C2_Witness ==
  /\ cp.pc = "done" /\ cp.kind = "memcpy"
  /\ cp.n = arch + 15
  /\ cp.from0 % 2 = 1 /\ cp.to0 % 2 = 1
  /\ cp.mem[cp.to0 + cp.n - 1] = FreshMem[cp.from0 + cp.n - 1]

\* xsimd::batch<int8_t, A>::broadcast(data): the bytes of the register.
Broadcast(a, data) == [j \in 1..a |-> data]

\* Line 277: data64 = *reinterpret_cast<int64_t*>(&v), the first 8 bytes of v,
\* as the bytes of the value from the lowest on.
Data64(v) == SubSeq(v, 1, 8)

\* NarrowTo keeping the high bytes of the value instead, which are zero once
\* the value is taken for the fill byte widened to 64 bits.
NarrowTo_Widened(size, value) ==
  [j \in 1..size |-> IF j = 1 THEN value[1] ELSE 0]

\* An int64_t passed for a narrower integer parameter T keeps its low bytes.
NarrowTo(size, value) == SubSeq(value, 1, size)

\* Lines 254-265: setNextWord<T>(to, data, bytes, arch) for sizeof(T) = size
\* and data given by its bytes, on st = [mem, to, from, bytes].
setNextWord(size, data, st) ==
  IF st.bytes >= size
  THEN IF st.bytes - size = 0
       THEN [mem   |-> StoreBytes(st.mem, st.to, data),
             to    |-> st.to, from |-> st.from,
             bytes |-> 0, ret |-> FALSE]
       ELSE [mem   |-> StoreBytes(st.mem, st.to, data),
             to    |-> st.to + size, from |-> st.from,
             bytes |-> st.bytes - size, ret |-> TRUE]
  ELSE [mem |-> st.mem, to |-> st.to, from |-> st.from,
        bytes |-> st.bytes, ret |-> TRUE]

\* Lines 271-276: v = broadcast(data); while (bytes >= batchByteSize(arch)) ...
MemsetBatch ==
  /\ cp.pc = "batch" /\ cp.kind = "memset"
  /\ cp' = IF cp.bytes >= arch
           THEN AfterCall(cp, setNextWord(arch, Broadcast(arch, cp.data),
                                          Locals(cp)), "batch")
           ELSE [cp EXCEPT !.pc = "word64"]
  /\ UNCHANGED OtherThanCp

\* Lines 277-282: while (bytes >= sizeof(int64_t)) set an int64_t.
MemsetWord64 ==
  /\ cp.pc = "word64" /\ cp.kind = "memset"
  /\ cp' = IF cp.bytes >= 8
           THEN AfterCall(cp, setNextWord(8, Data64(Broadcast(arch, cp.data)),
                                          Locals(cp)), "word64")
           ELSE [cp EXCEPT !.pc = "word32"]
  /\ UNCHANGED OtherThanCp

\* Lines 283-285: setNextWord<int32_t>(to, data64, bytes, arch).
MemsetWord32 ==
  /\ cp.pc = "word32" /\ cp.kind = "memset"
  /\ cp' = AfterCall(cp, setNextWord(4,
                       NarrowTo(4, Data64(Broadcast(arch, cp.data))),
                       Locals(cp)), "word16")
  /\ UNCHANGED OtherThanCp

\* Lines 286-288: setNextWord<int16_t>(to, data64, bytes, arch).
MemsetWord16 ==
  /\ cp.pc = "word16" /\ cp.kind = "memset"
  /\ cp' = AfterCall(cp, setNextWord(2,
                       NarrowTo(2, Data64(Broadcast(arch, cp.data))),
                       Locals(cp)), "word8")
  /\ UNCHANGED OtherThanCp

\* Line 289: setNextWord<int8_t>(to, data64, bytes, arch), and the function
\* returns.
MemsetWord8 ==
  /\ cp.pc = "word8" /\ cp.kind = "memset"
  /\ cp' = [AfterCall(cp, setNextWord(1,
                        NarrowTo(1, Data64(Broadcast(arch, cp.data))),
                        Locals(cp)), "done")
              EXCEPT !.pc = "done"]
  /\ UNCHANGED OtherThanCp

\* The fill bytes of the model: zero, one, a mixed pattern, all ones.
FillBytes == {0, 1, 165, 255}

InitMemset ==
  /\ arch \in ArchSizes
  /\ cp \in CopyArgs("memset", FillBytes, {0})
  /\ scan = Idle /\ alt = Idle /\ bm = Idle /\ lm = Idle /\ flt = Idle
  /\ prm = Idle /\ gth = Idle /\ crc = Idle

NextMemset ==
  MemsetBatch \/ MemsetWord64 \/ MemsetWord32 \/ MemsetWord16 \/ MemsetWord8

SpecMemset == InitMemset /\ [][NextMemset]_vars

RECURSIVE NaiveFill(_, _, _, _)
\* The byte-by-byte fill: for (i = 0; i < n; ++i) to[i] = data.
NaiveFill(mem, to, data, n) ==
  IF n = 0 THEN mem
  ELSE NaiveFill([mem EXCEPT ![to] = data], to + 1, data, n - 1)

\* C3: when memset(to, v, n) returns, memory is what the byte-by-byte fill of
\* n bytes with v makes of the memory before the call (to[i] = v for i < n,
\* every other byte unchanged); the 64-, 32-, 16- and 8-bit units taken from
\* the broadcast batch consist of the byte v only.
C3_MemsetIsNaiveFill ==
  /\ cp.bytes >= 0
  /\ cp.pc = "done" => cp.mem = NaiveFill(FreshMem, cp.to0, cp.data, cp.n)
  /\ \A size \in {1, 2, 4, 8} :
       NarrowTo(size, Data64(Broadcast(arch, cp.data)))
         = [j \in 1..size |-> cp.data]

\* A fill of an odd destination with a byte that no address held, which went
\* through a batch and every narrower unit, has returned.
C3_Witness ==
  /\ cp.pc = "done" /\ cp.kind = "memset"
  /\ cp.n = arch + 15
  /\ cp.to0 % 2 = 1
  /\ cp.data = 165
  /\ cp.mem[cp.to0 + cp.n - 1] = 165

(***************************************************************************)
(* BitMask: fromBitMask / toBitMask                                        *)
(***************************************************************************)

\* The element sizes of a batch, in bytes.
ElemSizes == {1, 2, 4, 8}

AllTrue(N) == [i \in 1..N |-> TRUE]

\* fromBitMaskImpl with the bit test taken without the shift: i & bit.
fromBitMaskImpl_NoShift(N, mask) ==
  [bit \in 1..N |-> \E k \in 0..7 : IsBitSet(mask, k) /\ IsBitSet(bit - 1, k)]

\* Lines 40-53: kMemo[mask] of fromBitMaskImpl, the table of the 2^N boolean
\* batches, entry i holding (i & (1 << bit)) in lane bit.
fromBitMaskImpl(N, mask) ==
  LET kMemo == [i \in 0..(2 ^ N - 1) |->
                  [bit \in 1..N |-> IsBitSet(i, bit - 1)]]
  IN  kMemo[mask]

\* Line 58: kAllSet = bits::lowMask(size), as a number.
kAllSet(N) == SumPow2(lowMask(N))

\* Lines 81-84: fromBitMask.
fromBitMask(N, mask) ==
  IF mask = kAllSet(N) THEN AllTrue(N) ELSE fromBitMaskImpl(N, mask)

RECURSIVE toBitMaskLoop(_, _, _)
\* Lines 72-78: for (i = 0; i < mask.size; ++i) if (mask.data[i]) result |= 1 << i
toBitMaskLoop(mask, i, result) ==
  IF i = Len(mask) THEN result
  ELSE toBitMaskLoop(mask, i + 1,
         IF mask[i + 1] /\ ~IsBitSet(result, i) THEN result + 2 ^ i
         ELSE result)

\* Lines 60-79: toBitMask.
toBitMask(mask) == toBitMaskLoop(mask, 0, 0)

OtherThanBm == <<arch, scan, alt, cp, lm, flt, prm, gth, crc>>

\* Lines 81-84: a call of fromBitMask(mask).
FromBitMask ==
  /\ bm.pc = "call"
  /\ bm' = [bm EXCEPT !.pc = "from",
                      !.lanes = fromBitMask(BatchSize(arch, bm.elemSize),
                                            bm.mask)]
  /\ UNCHANGED OtherThanBm

\* Lines 60-79: a call of toBitMask on the batch fromBitMask returned.
ToBitMask ==
  /\ bm.pc = "from"
  /\ bm' = [bm EXCEPT !.pc = "to", !.bits = toBitMask(bm.lanes)]
  /\ UNCHANGED OtherThanBm

\* Every element size whose batch has at most 8 lanes (line 42), and every
\* mask of that many bits.
InitBitMask ==
  /\ arch \in ArchSizes
  /\ bm \in {b \in [pc : {"call"}, elemSize : ElemSizes, mask : 0..255,
                    lanes : {<<>>}, bits : {0}] :
               /\ BatchSize(arch, b.elemSize) <= 8
               /\ b.mask < 2 ^ BatchSize(arch, b.elemSize)}
  /\ scan = Idle /\ alt = Idle /\ cp = Idle /\ lm = Idle /\ flt = Idle
  /\ prm = Idle /\ gth = Idle /\ crc = Idle

NextBitMask == FromBitMask \/ ToBitMask

SpecBitMask == InitBitMask /\ [][NextBitMask]_vars

\* C6: for every lane count N <= 8 and every m in [0, 2^N), lane i of
\* fromBitMask(m) is true iff bit i of m is set (m is the sum of 2^i over the
\* true lanes), and toBitMask(fromBitMask(m)) = m, on the all-true fast path
\* and on the table path.
C6_BitMaskRoundTrip ==
  /\ bm.pc \in {"from", "to"} =>
       /\ Len(bm.lanes) = BatchSize(arch, bm.elemSize)
       /\ SumPow2({i \in 0..(Len(bm.lanes) - 1) : bm.lanes[i + 1]}) = bm.mask
  /\ bm.pc = "to" => bm.bits = bm.mask

\* A mask of 8 lanes with set and clear bits, taken from the table, has gone
\* through both conversions.
C6_Witness ==
  /\ bm.pc = "to"
  /\ BatchSize(arch, bm.elemSize) = 8
  /\ bm.mask = 177
  /\ bm.bits = 177
  /\ bm.lanes[1] /\ ~bm.lanes[2] /\ bm.lanes[8]

(***************************************************************************)
(* leadingMask                                                             *)
(***************************************************************************)

\* How far the argument of leadingMask goes below 0 and above the lane count.
LeadSlack == 2

RECURSIVE LeadingMemo(_, _, _, _)
\* Lines 168-176: the table of the N prefix masks: entry i is tmp as it stands
\* before tmp[i] is set.
LeadingMemo(N, i, tmp, memo) ==
  IF i = N THEN memo
  ELSE LeadingMemo(N, i + 1, [tmp EXCEPT ![i + 1] = TRUE],
                   [memo EXCEPT ![i] = tmp])

\* The table with each entry stored after tmp[i] is set.
kMemoLeading_StoredLate(N) ==
  [i \in 0..(N - 1) |-> [j \in 1..N |-> j - 1 <= i]]

kMemoLeading(N) ==
  LeadingMemo(N, 0, [j \in 1..N |-> FALSE],
              [i \in 0..(N - 1) |-> <<>>])

\* What a read of the batch before the first entry of the table may find.
BeforeTable(N) ==
  {[j \in 1..N |-> FALSE], AllTrue(N), [j \in 1..N |-> j % 2 = 1]}

\* Line 177: the batches leadingMask(n) may return: all true for n >= N, the
\* table entry for 0 <= n < N; for n < 0 the read of kMemo[n] is out of the
\* table's bounds.
leadingMask(N, n) ==
  IF n >= N THEN {AllTrue(N)}
  ELSE IF n >= 0 THEN {kMemoLeading(N)[n]}
  ELSE BeforeTable(N)

OtherThanLm == <<arch, scan, alt, cp, bm, flt, prm, gth, crc>>

\* Lines 166-178: a call of leadingMask(n).
LeadingMask ==
  /\ lm.pc = "call"
  /\ \E r \in leadingMask(BatchSize(arch, lm.elemSize), lm.n) :
       lm' = [lm EXCEPT !.pc = "done", !.lanes = r]
  /\ UNCHANGED OtherThanLm

InitLeading ==
  /\ arch \in ArchSizes
  /\ lm \in {l \in [pc : {"call"}, elemSize : ElemSizes,
                    n : (0 - LeadSlack)..(32 + LeadSlack), lanes : {<<>>}] :
               l.n <= BatchSize(arch, l.elemSize) + LeadSlack}
  /\ scan = Idle /\ alt = Idle /\ cp = Idle /\ bm = Idle /\ flt = Idle
  /\ prm = Idle /\ gth = Idle /\ crc = Idle

NextLeading == LeadingMask

SpecLeading == InitLeading /\ [][NextLeading]_vars

\* min(n, N)
MinOf(x, y) == IF x <= y THEN x ELSE y

\* The lanes of the batch are true exactly at 0 .. k - 1, and there are k of them.
LeadingLanes(lanes, k) ==
  /\ Cardinality({j \in 1..Len(lanes) : lanes[j]}) = k
  /\ \A j \in 1..Len(lanes) : lanes[j] <=> j - 1 < k

\* C7, as claimed: for all values n of the argument, leadingMask(n) has
\* exactly min(n, N) true lanes, the lanes 0 .. min(n, N) - 1.
C7_AsClaimed ==
  lm.pc = "done" =>
    LeadingLanes(lm.lanes, MinOf(lm.n, BatchSize(arch, lm.elemSize)))

\* C7, amended: for all n >= 0, leadingMask(n) has exactly min(n, N) true
\* lanes, the lanes 0 .. min(n, N) - 1.
C7_LeadingMask ==
  (lm.pc = "done" /\ lm.n >= 0) =>
    /\ Len(lm.lanes) = BatchSize(arch, lm.elemSize)
    /\ LeadingLanes(lm.lanes, MinOf(lm.n, BatchSize(arch, lm.elemSize)))

\* leadingMask has returned a table entry that has true and false lanes.
C7_Witness ==
  /\ lm.pc = "done"
  /\ lm.n = 3 /\ BatchSize(arch, lm.elemSize) = 8
  /\ lm.lanes[3] /\ ~lm.lanes[4]

(***************************************************************************)
(* genericPermute, Permute and Filter                                      *)
(***************************************************************************)

\* What a read outside the array of the lanes may find.
OutOfBounds == {0, 77}

\* The first n entries of an index array, as a batch: load_aligned(idx).
LoadLanes(idx, n) == [j \in 1..n |-> idx[j]]

\* genericPermute taking lane i from lane i, whatever the index.
genericPermute_Identity(data, idx, g) == data

\* Lines 500-510: genericPermute(batch data, const int32_t* idx): lane i is 0
\* for a negative idx[i] and src[idx[i]] otherwise; g is what a read behind
\* src finds.
genericPermute(data, idx, g) ==
  [i \in 1..Len(data) |->
     IF idx[i] < 0 THEN 0
     ELSE IF idx[i] < Len(data) THEN data[idx[i] + 1] ELSE g]

\* Lines 512-520: genericPermute(batch data, batch idx) stores idx to pos and
\* calls the overload above.
genericPermuteBatch(data, idx, g) ==
  genericPermute(data, LoadLanes(idx, Len(idx)), g)

\* Lines 522-530: genericPermute(Batch64 data, Batch64 idx): lane i is
\* data.data[idx.data[i]], for any idx; g is what a read outside data finds.
genericPermuteBatch64(data, idx, g) ==
  [i \in 1..Len(idx) |->
     IF idx[i] >= 0 /\ idx[i] < Len(data) THEN data[idx[i] + 1] ELSE g]

\* Lines 294-307: HalfBatch<T, A> is Batch64<T> for a 16-byte register and a
\* batch of a 16-byte register for a 32-byte one.
HalfIsBatch64(a) == a = 16

\* HalfBatch<T, A>::size
HalfSize(a, elemSize) == BatchSize(a, elemSize) \div 2

\* Lines 537-542: Permute<T, A, 4>::apply on full batches.
PermuteApply(data, idx, g) == genericPermuteBatch(data, idx, g)

\* Lines 544-549: Permute<T, A, 4>::apply on half batches.
PermuteApplyHalf(a, data, idx, g) ==
  IF HalfIsBatch64(a) THEN genericPermuteBatch64(data, idx, g)
  ELSE genericPermuteBatch(data, idx, g)

OtherThanPrm == <<arch, scan, alt, cp, bm, lm, flt, gth, crc>>

\* Lines 537-542: a call of Permute::apply on a full batch.
PermuteFull ==
  /\ prm.pc = "call" /\ ~prm.half
  /\ \E g \in OutOfBounds :
       prm' = [prm EXCEPT !.pc = "done",
                          !.result = PermuteApply(prm.data, prm.idx, g)]
  /\ UNCHANGED OtherThanPrm

\* Lines 544-549: a call of Permute::apply on a half batch.
PermuteHalf ==
  /\ prm.pc = "call" /\ prm.half
  /\ \E g \in OutOfBounds :
       prm' = [prm EXCEPT !.pc = "done",
                          !.result = PermuteApplyHalf(arch, prm.data, prm.idx, g)]
  /\ UNCHANGED OtherThanPrm

\* The lanes of the data of the model: 5, 6, 7, ...
PermuteData(N) == [i \in 1..N |-> 4 + i]

\* The entries of an index batch of the model: negative, or in [0, N).
IndexPool(N) == {-1, 0, N \div 2, N - 1}

\* Batches of 4-byte elements, full and half, with every index batch over
\* the pool.
InitPermute ==
  /\ arch \in ArchSizes
  /\ \E half \in BOOLEAN :
       LET N == IF half THEN HalfSize(arch, 4) ELSE BatchSize(arch, 4)
       IN  prm \in [pc : {"call"}, half : {half}, data : {PermuteData(N)},
                    idx : [1..N -> IndexPool(N)], result : {<<>>}]
  /\ scan = Idle /\ alt = Idle /\ cp = Idle /\ bm = Idle /\ lm = Idle
  /\ flt = Idle /\ gth = Idle /\ crc = Idle

NextPermute == PermuteFull \/ PermuteHalf

SpecPermute == InitPermute /\ [][NextPermute]_vars

\* C9: for every index batch whose entries are negative or in [0, N), lane i
\* of permute(data, indices) is data lane indices[i] when indices[i] >= 0 and
\* zero when indices[i] < 0, for the full-width and for the half-width variant.
C9_Permute ==
  prm.pc = "done" =>
    /\ Len(prm.result) = Len(prm.data)
    /\ \A i \in 1..Len(prm.result) :
         prm.result[i] = IF prm.idx[i] < 0 THEN 0 ELSE prm.data[prm.idx[i] + 1]

RECURSIVE Filter2Walk(_, _, _, _, _)
\* Lines 654-658: for (i = 0; i < data.size; ++i)
\*                  if (mask & (1ull << i)) *write_ptr++ = data.data[i];
Filter2Walk(data, mask, i, result, write) ==
  IF i = Len(data) THEN result
  ELSE IF IsBitSet(mask, i)
       THEN Filter2Walk(data, mask, i + 1,
                        [result EXCEPT ![write + 1] = data[i + 1]], write + 1)
       ELSE Filter2Walk(data, mask, i + 1, result, write)

\* Lines 649-662: Filter<T, A, 2>::apply: the walk into a zeroed batch.
Filter2(data, mask) ==
  Filter2Walk(data, mask, 0, [i \in 1..Len(data) |-> 0], 0)

\* Lines 668, 673, 682: the indices Filter<T, A, 4> and Filter<T, A, 8> feed to
\* the permute step: the first lanes of byteSetBits[mask].
FilterIndices(data, mask) == LoadLanes(byteSetBits(mask), Len(data))

\* Lines 648-684: Filter<T, A>::apply for elements of elemSize bytes.
FilterApply(a, elemSize, half, data, mask, g) ==
  IF elemSize = 2 THEN Filter2(data, mask)
  ELSE IF elemSize = 4
  THEN IF half THEN PermuteApplyHalf(a, data, FilterIndices(data, mask), g)
       ELSE PermuteApply(data, FilterIndices(data, mask), g)
  ELSE genericPermute(data, byteSetBits(mask), g)

OtherThanFlt == <<arch, scan, alt, cp, bm, lm, prm, gth, crc>>

\* Lines 649-662: a call of Filter<T, A, 2>::apply.
FilterWalk ==
  /\ flt.pc = "call" /\ flt.elemSize = 2
  /\ flt' = [flt EXCEPT !.pc = "done",
                        !.result = FilterApply(arch, 2, FALSE, flt.data,
                                               flt.mask, 0)]
  /\ UNCHANGED OtherThanFlt

\* A call of Filter::apply that goes through the permute step.
FilterByPermute ==
  \E g \in OutOfBounds :
    flt' = [flt EXCEPT !.pc = "done",
              !.vindex = FilterIndices(flt.data, flt.mask),
              !.result = FilterApply(arch, flt.elemSize, flt.half,
                                     flt.data, flt.mask, g)]

\* Lines 666-670: a call of Filter<T, A, 4>::apply on a full batch.
Filter4 ==
  /\ flt.pc = "call" /\ flt.elemSize = 4 /\ ~flt.half
  /\ FilterByPermute
  /\ UNCHANGED OtherThanFlt

\* Lines 672-675: a call of Filter<T, A, 4>::apply on a half batch.
Filter4Half ==
  /\ flt.pc = "call" /\ flt.elemSize = 4 /\ flt.half
  /\ FilterByPermute
  /\ UNCHANGED OtherThanFlt

\* Lines 679-684: a call of Filter<T, A, 8>::apply.
Filter8 ==
  /\ flt.pc = "call" /\ flt.elemSize = 8
  /\ FilterByPermute
  /\ UNCHANGED OtherThanFlt

\* The lanes of the data of the model: 10, 20, 30, ...
FilterData(N) == [i \in 1..N |-> 10 * i]

\* Batches of 2-, 4- and 8-byte elements and half batches of 4-byte elements,
\* each with every bitmask of its lanes.
InitFilter ==
  /\ arch \in ArchSizes
  /\ \E elemSize \in {2, 4, 8}, half \in BOOLEAN :
       /\ half => elemSize = 4
       /\ LET N == IF half THEN HalfSize(arch, elemSize)
                   ELSE BatchSize(arch, elemSize)
          IN  flt \in [pc : {"call"}, elemSize : {elemSize}, half : {half},
                       data : {FilterData(N)}, mask : 0..(2 ^ N - 1),
                       vindex : {<<>>}, result : {<<>>}]
  /\ scan = Idle /\ alt = Idle /\ cp = Idle /\ bm = Idle /\ lm = Idle
  /\ prm = Idle /\ gth = Idle /\ crc = Idle

NextFilter == FilterWalk \/ Filter4 \/ Filter4Half \/ Filter8

SpecFilter == InitFilter /\ [][NextFilter]_vars

\* The position of the j-th set bit of mask, counted from 0.
NthSetBit(mask, j) ==
  CHOOSE p \in 0..31 :
    /\ IsBitSet(mask, p)
    /\ Cardinality({q \in 0..(p - 1) : IsBitSet(mask, q)}) = j

\* C4: for every batch of N lanes of 2-, 4- or 8-byte elements, and every half
\* batch of 4-byte elements, and every bitmask m in [0, 2^N), lane j of
\* filter(data, m) is, for j < popcount(m), the data lane at the position of
\* the j-th set bit of m; and no index fed to the permute step is negative
\* or >= N.
C4_Filter ==
  flt.pc = "done" =>
    /\ Len(flt.result) = Len(flt.data)
    /\ \A j \in 0..(popcount(flt.mask) - 1) :
         flt.result[j + 1] = flt.data[NthSetBit(flt.mask, j) + 1]
    /\ \A i \in 1..Len(flt.vindex) :
         flt.vindex[i] >= 0 /\ flt.vindex[i] < Len(flt.data)

\* The specification's example: 8 lanes 10 .. 80 of 4-byte elements under
\* 0b10110001 have been filtered to 10, 50, 60, 80.
C4_Witness ==
  /\ flt.pc = "done"
  /\ flt.elemSize = 4 /\ ~flt.half /\ arch = 32
  /\ flt.mask = 177
  /\ SubSeq(flt.result, 1, 4) = <<10, 50, 60, 80>>
  /\ Len(flt.vindex) = 8

(***************************************************************************)
(* Crc32<uint64_t, A>::apply                                               *)
(* A 32-bit value is the pair <<high 16 bits, low 16 bits>>, a uint64_t    *)
(* the sequence of its 8 bytes in memory.                                  *)
(***************************************************************************)

RECURSIVE XorBits(_, _, _)
\* a ^ b on numbers of n bits.
XorBits(a, b, n) ==
  IF n = 0 THEN 0
  ELSE ((a + b) % 2) + 2 * XorBits(a \div 2, b \div 2, n - 1)

\* a ^ b on 32-bit values.
Xor32(a, b) == <<XorBits(a[1], b[1], 16), XorBits(a[2], b[2], 16)>>

\* a >> k on a 32-bit value, for k <= 16.
ShiftRight32(a, k) ==
  <<a[1] \div (2 ^ k), (a[2] \div (2 ^ k)) + (a[1] % (2 ^ k)) * (2 ^ (16 - k))>>

RECURSIVE ReflectBits(_, _, _)
\* The n low bits of a in reverse order, behind the bits of acc.
ReflectBits(a, n, acc) ==
  IF n = 0 THEN acc ELSE ReflectBits(a \div 2, n - 1, 2 * acc + (a % 2))

\* The reflection of a 32-bit value: bit b becomes bit 31 - b.
Reflect32(a) == <<ReflectBits(a[2], 16, 0), ReflectBits(a[1], 16, 0)>>

\* boost::crc_32_type is crc_optimal<32, 0x04C11DB7, 0xFFFFFFFF, 0xFFFFFFFF,
\* true, true>: the truncated polynomial and the final xor value.
TruncPoly == <<1217, 7607>>
FinalXor == <<65535, 65535>>

RECURSIVE CrcShift(_, _)
\* k steps of the reflected division: the low bit decides whether the
\* reflected polynomial is subtracted after the shift.
CrcShift(rem, k) ==
  IF k = 0 THEN rem
  ELSE CHOOSE out \in
         { CrcShift(next, k - 1) :
             next \in { IF rem[2] % 2 = 1
                        THEN Xor32(ShiftRight32(rem, 1), Reflect32(TruncPoly))
                        ELSE ShiftRight32(rem, 1) } } : TRUE

\* The entry of the byte-wise table of the reflected division.
CrcTable(index) == CrcShift(<<0, index>>, 8)

\* One byte folded into the remainder:
\* rem = table[(rem ^ byte) & 0xFF] ^ (rem >> 8).
ProcessByte(rem, byte) ==
  Xor32(CrcTable(XorBits(rem[2] % 256, byte, 8)), ShiftRight32(rem, 8))

RECURSIVE ProcessBytes(_, _)
\* crc_optimal::process_bytes
ProcessBytes(rem, bytes) ==
  IF bytes = <<>> THEN rem
  ELSE CHOOSE out \in
         { ProcessBytes(next, Tail(bytes)) :
             next \in { ProcessByte(rem, Head(bytes)) } } : TRUE

\* crc_optimal's constructor: the remainder is the reflected initial value.
CrcInit(initRem) == Reflect32(initRem)

\* crc_optimal::checksum(): the remainder, not reflected again since input
\* and remainder are both reflected, xor the final xor value.
CrcChecksum(rem) == Xor32(rem, FinalXor)

\* Lines 688-693: boost::crc_32_type result(checksum);
\*                result.process_bytes(&value, sizeof(value)); return result();
Crc32Apply(checksum, value) ==
  CrcChecksum(ProcessBytes(CrcInit(checksum), value))

OtherThanCrc == <<arch, scan, alt, cp, bm, lm, flt, prm, gth>>

\* Lines 688-693: a call crc32(checksum, value) with the next value of the
\* stream and the checksum the call before returned.  whole is the remainder
\* of one crc_32_type object, started from the seed, that is given the bytes of
\* every value fed so far.
Crc32Call ==
  /\ crc.pc = "run"
  /\ crc.fed < Len(crc.stream)
  /\ crc' = [crc EXCEPT !.fed = @ + 1,
                        !.checksum = Crc32Apply(crc.checksum, crc.stream[crc.fed + 1]),
                        !.whole = ProcessBytes(crc.whole, crc.stream[crc.fed + 1])]
  /\ UNCHANGED OtherThanCrc

\* The most 8-byte values of a stream.
MaxValues == 3

\* The seeds of the model: 0, 0xFFFFFFFF, 1, 0x12345678.
Seeds == { <<0, 0>>, <<65535, 65535>>, <<0, 1>>, <<4660, 22136>> }

\* The values of the model: 0, the characters 12345678, all ones.
Values == { <<0, 0, 0, 0, 0, 0, 0, 0>>, <<49, 50, 51, 52, 53, 54, 55, 56>>,
            <<255, 255, 255, 255, 255, 255, 255, 255>> }

InitCrc ==
  /\ arch \in ArchSizes
  /\ \E seed \in Seeds, len \in 1..MaxValues :
       crc \in [pc : {"run"}, seed : {seed}, stream : [1..len -> Values],
                fed : {0}, checksum : {seed}, whole : {CrcInit(seed)}]
  /\ scan = Idle /\ alt = Idle /\ cp = Idle /\ bm = Idle /\ lm = Idle
  /\ flt = Idle /\ prm = Idle /\ gth = Idle

NextCrc == Crc32Call

SpecCrc == InitCrc /\ [][NextCrc]_vars

\* C8: crc32 is chain-composable: with a the values fed but the last and b the
\* last one, crc32(crc32(seed, a), b) is the whole-buffer CRC-32 of
\* concat(a, b) by the same algorithm started from seed.
C8_CrcChaining ==
  crc.fed >= 2 => crc.checksum = CrcChecksum(crc.whole)

(***************************************************************************)
(* genericMaskGather and the maskApply of the Gather specialisations       *)
(* An index and a byte offset are pairs <<high, low>> that stand for        *)
(* high * 2^16 + low, with low in 0 .. 2^16 - 1, so that offsets past the   *)
(* range of int32_t can be told from the ones that wrapped.  A value of    *)
(* type T is the sequence of its bytes in memory.                          *)
(***************************************************************************)

Limb == 2 ^ 16

\* index * kScale, exactly.
ScaleIndex(index, kScale) ==
  <<index[1] * kScale + ((index[2] * kScale) \div Limb),
    (index[2] * kScale) % Limb>>

FitsInt32(off) == off[1] \in -(2 ^ 15) .. (2 ^ 15 - 1)

\* The value of int32_t width that is congruent to off modulo 2^32.
WrapInt32(off) == <<((off[1] + 2 ^ 15) % Limb) - 2 ^ 15, off[2]>>

\* Line 350 for int32_t indices: vindex.data[i] * kScale is a product of two
\* ints.  A product outside int32_t is undefined: a build either wraps it to
\* 32 bits before it is added to the pointer or folds it into the 64-bit
\* address computation.
MulInt32(index, kScale, wraps) ==
  IF FitsInt32(ScaleIndex(index, kScale)) \/ ~wraps
  THEN ScaleIndex(index, kScale)
  ELSE WrapInt32(ScaleIndex(index, kScale))

\* Line 350 for int64_t indices: the product is an int64_t, wide enough for
\* the indices of the model.
MulInt64(index, kScale) == ScaleIndex(index, kScale)

\* The byte offset k bytes past off.
AddBytes(off, k) ==
  <<off[1] + ((off[2] + k) \div Limb), (off[2] + k) % Limb>>

\* The byte of the base buffer at a byte offset: 4-byte element j holds
\* 100 + 10 * j in its low byte, and every 2^16 bytes the content changes.
BaseByte(off) ==
  IF off[2] % 4 = 0
  THEN (100 + 10 * (off[2] \div 4) + 3 * (off[1] % 251)) % 256
  ELSE (off[1] % 251) % 256

\* *reinterpret_cast<const T*>(bytes + off) for a T of size bytes.
LoadT(off, size) == [k \in 1..size |-> BaseByte(AddBytes(off, k - 1))]

\* Lines 332-356: lane i is read from the base buffer at offsets[i] when the
\* mask lane is set and is the src lane otherwise; reads are the lanes and
\* offsets at which the base buffer was dereferenced.
genericMaskGather(src, mask, offsets, size) ==
  [dst   |-> [i \in DOMAIN src |->
                IF mask[i] THEN LoadT(offsets[i], size) ELSE src[i]],
   reads |-> {<<i, offsets[i]>> : i \in {j \in DOMAIN src : mask[j]}}]

OtherThanGth == <<arch, scan, alt, cp, bm, lm, flt, prm, crc>>

\* The call returns what genericMaskGather computed from the offsets.
MaskGatherReturn(offsets) ==
  /\ gth' = [gth EXCEPT
               !.pc = "done",
               !.dst = genericMaskGather(gth.src, gth.mask, offsets,
                                         gth.size).dst,
               !.reads = genericMaskGather(gth.src, gth.mask, offsets,
                                           gth.size).reads]
  /\ UNCHANGED OtherThanGth

\* Lines 394-413: Gather<T, int32_t, A, 4>::maskApply, from a pointer to the
\* indices (loadIndices, line 373) or from a batch of them.
MaskGather32x4 ==
  /\ gth.pc = "call" /\ gth.size = 4 /\ gth.indexBits = 32
  /\ \E wraps \in BOOLEAN :
       MaskGatherReturn([i \in DOMAIN gth.vindex |->
                           MulInt32(gth.vindex[i], gth.kScale, wraps)])

\* Lines 437-447: Gather<T, int32_t, A, 8>::maskApply, the indices loaded
\* as a half batch of int32_t (line 421).
MaskGather32x8 ==
  /\ gth.pc = "call" /\ gth.size = 8 /\ gth.indexBits = 32
  /\ \E wraps \in BOOLEAN :
       MaskGatherReturn([i \in DOMAIN gth.vindex |->
                           MulInt32(gth.vindex[i], gth.kScale, wraps)])

\* Lines 463-480: Gather<T, int64_t, A, 8>::maskApply, from a pointer to the
\* indices (loadIndices, line 454) or from a batch of them.
MaskGather64x8 ==
  /\ gth.pc = "call" /\ gth.size = 8 /\ gth.indexBits = 64
  /\ MaskGatherReturn([i \in DOMAIN gth.vindex |->
                         MulInt64(gth.vindex[i], gth.kScale)])

\* The src batch of a call: lane i holds the number i, or 200 + i.
SrcBatches(N, size) ==
  { [i \in 1..N |-> [k \in 1..size |-> IF k = 1 THEN from + i ELSE 0]] :
      from \in {0, 200} }

\* The index batches of a call: 0, 2, 4, ...; N - 1 down to 0; 2^28 upwards;
\* -1 downwards; and, for 64-bit indices, 40000 * 2^16 upwards.
IndexBatches(N, indexBits) ==
  { [i \in 1..N |-> <<0, 2 * (i - 1)>>],
    [i \in 1..N |-> <<0, N - i>>],
    [i \in 1..N |-> <<2 ^ 12, i - 1>>],
    [i \in 1..N |-> <<-1, Limb - i>>] }
  \cup (IF indexBits = 64 THEN { [i \in 1..N |-> <<40000, i - 1>>] } ELSE {})

\* The template arguments of a call: sizeof(T) and the width of the indices.
GatherKinds == { <<4, 32>>, <<8, 32>>, <<8, 64>> }

KScales == {1, 2, 4, 8}

InitGather ==
  /\ arch \in ArchSizes
  /\ \E kind \in GatherKinds :
       gth \in [pc : {"call"}, size : {kind[1]}, indexBits : {kind[2]},
                kScale : KScales,
                src : SrcBatches(BatchSize(arch, kind[1]), kind[1]),
                mask : [1..BatchSize(arch, kind[1]) -> BOOLEAN],
                vindex : IndexBatches(BatchSize(arch, kind[1]), kind[2]),
                dst : {<<>>}, reads : {{}}]
  /\ scan = Idle /\ alt = Idle /\ cp = Idle /\ bm = Idle /\ lm = Idle
  /\ flt = Idle /\ prm = Idle /\ crc = Idle

NextGather == MaskGather32x4 \/ MaskGather32x8 \/ MaskGather64x8

SpecGather == InitGather /\ [][NextGather]_vars

\* C5: maskGather returns, in every lane whose mask is true, the element of
\* type T at byte offset indices[i] * kScale from base, and in every other lane
\* the lane of src; the base buffer is not dereferenced for a lane whose mask
\* is false.
C5_MaskGather ==
  gth.pc = "done" =>
    /\ \A i \in DOMAIN gth.src :
         gth.dst[i] = IF gth.mask[i]
                      THEN LoadT(ScaleIndex(gth.vindex[i], gth.kScale),
                                 gth.size)
                      ELSE gth.src[i]
    /\ \A r \in gth.reads : gth.mask[r[1]]

(***************************************************************************)
(* gather of 16-bit elements through two masked 32-bit gathers and pack32  *)
(***************************************************************************)

\* Lines 484-498: pack32(x, y): the low 16 bits of every lane of x, then of
\* every lane of y; a lane is the sequence of its bytes from the lowest on.
pack32(x, y) ==
  [i \in 1..(Len(x) + Len(y)) |->
     IF i <= Len(x) THEN SubSeq(x[i], 1, 2) ELSE SubSeq(y[i - Len(x)], 1, 2)]

\* xsimd::batch<int32_t, A>::broadcast(0)
BroadcastZero32(N) == [i \in 1..N |-> <<0, 0, 0, 0>>]

\* Lines 389-398: maskGather<int32_t, int32_t, kScale>(src, mask, base,
\* indices): Gather<int32_t, int32_t, A, 4>::maskApply loads a batch of
\* indices from the pointer and gathers 4-byte elements.
maskGather32(src, mask, indices, kScale, wraps) ==
  genericMaskGather(src, mask,
                    [i \in DOMAIN src |-> MulInt32(indices[i], kScale, wraps)],
                    4)

\* Lines 560-565: the first masked gather, of the lanes below numIndices.
Gather16First ==
  /\ gth.pc = "call16"
  /\ \E mask \in leadingMask(BatchSize(arch, 4), gth.numIndices) :
       \E g \in {maskGather32(BroadcastZero32(BatchSize(arch, 4)), mask,
                              gth.indices, gth.kScale, gth.wraps)} :
         gth' = [gth EXCEPT !.pc = "first", !.first = g.dst,
                            !.reads = g.reads]
  /\ UNCHANGED OtherThanGth

\* Lines 566-577: the second masked gather, from indices + kIndicesBatchSize,
\* when numIndices is above the batch size, and a batch of zeros otherwise.
Gather16Second ==
  /\ gth.pc = "first"
  /\ LET M == BatchSize(arch, 4)
     IN  IF gth.numIndices > M
         THEN \E mask \in leadingMask(M, gth.numIndices - M) :
                \E g \in {maskGather32(BroadcastZero32(M), mask,
                                       [i \in 1..M |-> gth.indices[M + i]],
                                       gth.kScale, gth.wraps)} :
                  gth' = [gth EXCEPT
                            !.pc = "second", !.second = g.dst,
                            !.secondIssued = TRUE,
                            !.reads = @ \cup {<<M + r[1], r[2]>> : r \in g.reads}]
         ELSE gth' = [gth EXCEPT !.pc = "second",
                                 !.second = BroadcastZero32(M)]
  /\ UNCHANGED OtherThanGth

\* Line 578: return detail::pack32(first, second, arch).
Gather16Pack ==
  /\ gth.pc = "second"
  /\ gth' = [gth EXCEPT !.pc = "done16",
                        !.result = pack32(gth.first, gth.second)]
  /\ UNCHANGED OtherThanGth

\* The index arrays of a call, of two batches of int32_t: those of the masked
\* gather and one from 2^30 upwards.
Index16Arrays(N) ==
  IndexBatches(N, 32) \cup { [i \in 1..N |-> <<2 ^ 14, i - 1>>] }

\* Every numIndices from 0 to twice the lanes of an int32_t batch; wraps tells
\* how the build treats a product outside int32_t.
InitGather16 ==
  /\ arch \in ArchSizes
  /\ gth \in [pc : {"call16"}, kScale : KScales, wraps : BOOLEAN,
              numIndices : 0..(2 * BatchSize(arch, 4)),
              indices : Index16Arrays(2 * BatchSize(arch, 4)),
              first : {<<>>}, second : {<<>>}, secondIssued : {FALSE},
              reads : {{}}, result : {<<>>}]
  /\ scan = Idle /\ alt = Idle /\ cp = Idle /\ bm = Idle /\ lm = Idle
  /\ flt = Idle /\ prm = Idle /\ crc = Idle

NextGather16 == Gather16First \/ Gather16Second \/ Gather16Pack

SpecGather16 == InitGather16 /\ [][NextGather16]_vars

\* C12: with M the lanes of a 32-bit batch and 0 <= numIndices <= 2M, lane i
\* of the 16-bit gather is, for i < numIndices, the low 16 bits of the 32-bit
\* word at byte offset indices[i] * kScale from base, and zero for
\* i >= numIndices; base is not read for a lane i >= numIndices; and the second
\* gather is issued only when numIndices > M.
C12_Gather16 ==
  /\ gth.pc = "done16" =>
       /\ Len(gth.result) = 2 * BatchSize(arch, 4)
       /\ \A i \in 1..Len(gth.result) :
            gth.result[i] =
              IF i <= gth.numIndices
              THEN SubSeq(LoadT(ScaleIndex(gth.indices[i], gth.kScale), 4),
                          1, 2)
              ELSE <<0, 0>>
  /\ gth.pc \in {"first", "second", "done16"} =>
       /\ \A r \in gth.reads : r[1] <= gth.numIndices
       /\ gth.secondIssued => gth.numIndices > BatchSize(arch, 4)

====
